---- MODULE Spec2Model ----
(***************************************************************************)
(* The four bare-metal example programs of the repository, as one state    *)
(* machine.  Each main() is a straight-line list of statements followed by *)
(* an infinite loop; the model keeps each main as the sequence of its      *)
(* statements and has one action per kind of statement.                    *)
(*                                                                         *)
(*   nucleo    example-blinky/nucleo-f767zi/src/main.rs                    *)
(*   f3blinky  example-blinky/src/main.rs                                  *)
(*   f3uart    examples/uart/stm32f3-disco/src/main.rs                     *)
(*   skeleton  example-uart/src/main.rs                                    *)
(***************************************************************************)
EXTENDS Integers, Sequences, FiniteSets, TLC

VARIABLES
    prog,       \* which example program is flashed on the board
    pc,         \* index of the statement of main about to execute
    halted,     \* TRUE inside one of the error closures' loop { asm::nop() }
    err,        \* the last error outcome an operation returned ("none" if none)
    owner,      \* per singleton: "free", or who took it ("other", "main")
    takeLog,    \* per singleton: the outcome of every take() so far, in order
    held,       \* the singletons main holds (device_periphs, core_periphs)
    clocks,     \* the frozen clock configuration ("none" before freeze)
    delayReady, \* the Delay abstraction over SYST exists
    ports,      \* GPIO ports that were split (port clock enabled)
    pinMode,    \* mode of each physical pin
    cfgCount,   \* how many handles were made of each physical pin
    uartOn,     \* Serial::new has activated UART4
    level,      \* logical output level of each LED handle
    remaining,  \* milliseconds left of the delay_ms call in progress
    t,          \* ms elapsed since the loop was entered, modulo the loop period
    iter,       \* completed loop iterations, modulo 2
    idx,        \* bytes of the current write_str already handed to UART4
    txCur,      \* bytes put on the wire since the latest write_str started
    gap,        \* ms of delay elapsed since the latest write_str returned
    wrote       \* a write_str has returned Ok before

vars == <<prog, pc, halted, err, owner, takeLog, held, clocks, delayReady, ports, pinMode,
          cfgCount, uartOn, level, remaining, t, iter, idx, txCur, gap, wrote>>

(***************************************************************************)
(* Program constants.                                                      *)
(***************************************************************************)
LED_ON_DELAY_MS == 100
LED_OFF_DELAY_MS == 400
LED_TOGGLE_DELAY_MS == 500
UART_WRITE_DELAY_MS == 2000

\* The longest stretch of a busy wait the model takes in one step, in ms.
TickMs == 50

\* "Hello, World!\r\n" as its ASCII bytes.
Payload == <<72, 101, 108, 108, 111, 44, 32, 87, 111, 114, 108, 100, 33, 13, 10>>

Programs == {"nucleo", "f3blinky", "f3uart", "skeleton"}
Singletons == {"device", "core"}

NucleoPins == {"PB0", "PB7", "PB14"}
LedsPins == {"PE8", "PE9", "PE10", "PE11", "PE12", "PE13", "PE14", "PE15"}
UartPins == {"PC10", "PC11"}
Pins == NucleoPins \cup LedsPins \cup UartPins

NucleoLeds == {"led_ld1", "led_ld2", "led_ld3"}
BoardLeds == {"ld3", "ld4", "ld5", "ld6", "ld7", "ld8", "ld9", "ld10"}
Handles == NucleoLeds \cup BoardLeds

\* A statement of main: the operation, its operands and a number.
Ins(op, a, b, n) == [op |-> op, a |-> a, b |-> b, n |-> n]

(***************************************************************************)
(* The statements of each main, in program order.  constrain() calls only  *)
(* wrap a register block and change no state, so they are not statements   *)
(* of their own.                                                           *)
(***************************************************************************)
\* The Nucleo main with the two delays exchanged.
NucleoMain_SwappedDelays ==
    << Ins("take", "device", "", 0),
       Ins("freeze", "48MHz", "", 0),
       Ins("take", "core", "", 0),
       Ins("delay_new", "", "", 0),
       Ins("split", "GPIOB", "", 0),
       Ins("into_push_pull_output", "PB0", "led_ld1", 0),
       Ins("into_push_pull_output", "PB7", "led_ld2", 0),
       Ins("into_push_pull_output", "PB14", "led_ld3", 0),
       Ins("set_high", "led_ld1", "", 0),
       Ins("set_high", "led_ld2", "", 0),
       Ins("set_high", "led_ld3", "", 0),
       Ins("delay_ms", "", "", LED_OFF_DELAY_MS),
       Ins("set_low", "led_ld1", "", 0),
       Ins("set_low", "led_ld2", "", 0),
       Ins("set_low", "led_ld3", "", 0),
       Ins("delay_ms", "", "", LED_ON_DELAY_MS),
       Ins("loop", "", "", 9) >>

\* The Nucleo main with LD2 made of PB0 a second time instead of PB7.
NucleoMain_Pb0Twice ==
    << Ins("take", "device", "", 0),
       Ins("freeze", "48MHz", "", 0),
       Ins("take", "core", "", 0),
       Ins("delay_new", "", "", 0),
       Ins("split", "GPIOB", "", 0),
       Ins("into_push_pull_output", "PB0", "led_ld1", 0),
       Ins("into_push_pull_output", "PB0", "led_ld2", 0),
       Ins("into_push_pull_output", "PB14", "led_ld3", 0),
       Ins("set_high", "led_ld1", "", 0),
       Ins("set_high", "led_ld2", "", 0),
       Ins("set_high", "led_ld3", "", 0),
       Ins("delay_ms", "", "", LED_ON_DELAY_MS),
       Ins("set_low", "led_ld1", "", 0),
       Ins("set_low", "led_ld2", "", 0),
       Ins("set_low", "led_ld3", "", 0),
       Ins("delay_ms", "", "", LED_OFF_DELAY_MS),
       Ins("loop", "", "", 9) >>

\* The Nucleo main with set_low of LD3 before the 100 ms delay and set_high of
\* LD3 after it.
NucleoMain_Ld3OutOfOrder ==
    << Ins("take", "device", "", 0),
       Ins("freeze", "48MHz", "", 0),
       Ins("take", "core", "", 0),
       Ins("delay_new", "", "", 0),
       Ins("split", "GPIOB", "", 0),
       Ins("into_push_pull_output", "PB0", "led_ld1", 0),
       Ins("into_push_pull_output", "PB7", "led_ld2", 0),
       Ins("into_push_pull_output", "PB14", "led_ld3", 0),
       Ins("set_high", "led_ld1", "", 0),
       Ins("set_high", "led_ld2", "", 0),
       Ins("set_low", "led_ld3", "", 0),
       Ins("delay_ms", "", "", LED_ON_DELAY_MS),
       Ins("set_low", "led_ld1", "", 0),
       Ins("set_low", "led_ld2", "", 0),
       Ins("set_high", "led_ld3", "", 0),
       Ins("delay_ms", "", "", LED_OFF_DELAY_MS),
       Ins("loop", "", "", 9) >>

NucleoMain ==
    << Ins("take", "device", "", 0),
       Ins("freeze", "48MHz", "", 0),
       Ins("take", "core", "", 0),
       Ins("delay_new", "", "", 0),
       Ins("split", "GPIOB", "", 0),
       Ins("into_push_pull_output", "PB0", "led_ld1", 0),
       Ins("into_push_pull_output", "PB7", "led_ld2", 0),
       Ins("into_push_pull_output", "PB14", "led_ld3", 0),
       Ins("set_high", "led_ld1", "", 0),
       Ins("set_high", "led_ld2", "", 0),
       Ins("set_high", "led_ld3", "", 0),
       Ins("delay_ms", "", "", LED_ON_DELAY_MS),
       Ins("set_low", "led_ld1", "", 0),
       Ins("set_low", "led_ld2", "", 0),
       Ins("set_low", "led_ld3", "", 0),
       Ins("delay_ms", "", "", LED_OFF_DELAY_MS),
       Ins("loop", "", "", 9) >>

F3BlinkyMain ==
    << Ins("take", "device", "", 0),
       Ins("take", "core", "", 0),
       Ins("freeze", "default", "", 0),
       Ins("delay_new", "", "", 0),
       Ins("split", "GPIOE", "", 0),
       Ins("leds_new", "", "", 0),
       Ins("toggle", "ld3", "", 0),
       Ins("toggle", "ld4", "", 0),
       Ins("toggle", "ld5", "", 0),
       Ins("toggle", "ld6", "", 0),
       Ins("toggle", "ld7", "", 0),
       Ins("toggle", "ld8", "", 0),
       Ins("toggle", "ld9", "", 0),
       Ins("toggle", "ld10", "", 0),
       Ins("delay_ms", "", "", LED_TOGGLE_DELAY_MS),
       Ins("loop", "", "", 7) >>

\* The UART main without the delay between writes.
F3UartMain_NoDelay ==
    << Ins("take", "device", "", 0),
       Ins("freeze", "48MHz", "", 0),
       Ins("take", "core", "", 0),
       Ins("delay_new", "", "", 0),
       Ins("split", "GPIOC", "", 0),
       Ins("into_af_push_pull", "PC10", "tx_pin", 0),
       Ins("into_af_push_pull", "PC11", "rx_pin", 0),
       Ins("serial_new", "UART4", "", 0),
       Ins("write_str", "UART4", "", 0),
       Ins("loop", "", "", 9) >>

\* The UART main taking the core peripherals only after the pins and UART4
\* have been set up.
F3UartMain_LateCoreTake ==
    << Ins("take", "device", "", 0),
       Ins("freeze", "48MHz", "", 0),
       Ins("split", "GPIOC", "", 0),
       Ins("into_af_push_pull", "PC10", "tx_pin", 0),
       Ins("into_af_push_pull", "PC11", "rx_pin", 0),
       Ins("serial_new", "UART4", "", 0),
       Ins("take", "core", "", 0),
       Ins("delay_new", "", "", 0),
       Ins("write_str", "UART4", "", 0),
       Ins("delay_ms", "", "", UART_WRITE_DELAY_MS),
       Ins("loop", "", "", 9) >>

F3UartMain ==
    << Ins("take", "device", "", 0),
       Ins("freeze", "48MHz", "", 0),
       Ins("take", "core", "", 0),
       Ins("delay_new", "", "", 0),
       Ins("split", "GPIOC", "", 0),
       Ins("into_af_push_pull", "PC10", "tx_pin", 0),
       Ins("into_af_push_pull", "PC11", "rx_pin", 0),
       Ins("serial_new", "UART4", "", 0),
       Ins("write_str", "UART4", "", 0),
       Ins("delay_ms", "", "", UART_WRITE_DELAY_MS),
       Ins("loop", "", "", 9) >>

SkeletonMain ==
    << Ins("nop", "", "", 0),
       Ins("loop", "", "", 2) >>

Main(p) ==
    CASE p = "nucleo" -> NucleoMain
      [] p = "f3blinky" -> F3BlinkyMain
      [] p = "f3uart" -> F3UartMain
      [] p = "skeleton" -> SkeletonMain

\* The statement about to execute.
Cur == Main(prog)[pc]

\* The loop statement of a main and the first statement of its body.
LoopIdx(p) == CHOOSE i \in 1..Len(Main(p)) : Main(p)[i].op = "loop"
LoopStart(p) == Main(p)[LoopIdx(p)].n

RECURSIVE SumDelays(_, _, _)
SumDelays(p, i, j) ==
    IF i > j THEN 0
    ELSE (IF Main(p)[i].op = "delay_ms" THEN Main(p)[i].n ELSE 0) + SumDelays(p, i + 1, j)

\* Duration of one loop iteration: the delays of the loop body.
Period(p) == SumDelays(p, LoopStart(p), LoopIdx(p))

Running(op) == ~halted /\ Cur.op = op

Init ==
    /\ prog \in Programs
    /\ pc = 1
    /\ halted = FALSE
    /\ err = "none"
    /\ owner \in [Singletons -> {"free", "other"}]
    /\ takeLog = [s \in Singletons |-> IF owner[s] = "other" THEN <<TRUE>> ELSE <<>>]
    /\ held = {}
    /\ clocks = "none"
    /\ delayReady = FALSE
    /\ ports = {}
    /\ pinMode = [p \in Pins |-> "reset"]
    /\ cfgCount = [p \in Pins |-> 0]
    /\ uartOn = FALSE
    /\ level = [h \in Handles |-> FALSE]
    /\ remaining = 0
    /\ t = 0
    /\ iter = 0
    /\ idx = 0
    /\ txCur = <<>>
    /\ gap = 0
    /\ wrote = FALSE

(***************************************************************************)
(* Ownership acquisition.                                                  *)
(***************************************************************************)
\* Peripherals::take(): Some exactly when the singleton was not taken yet.
TakeSucceeds(s) == owner[s] = "free"

\* A main that goes on with the peripherals although take() returned None.
TakeOrHalt_IgnoresNone ==
    /\ Running("take")
    /\ takeLog' = [takeLog EXCEPT ![Cur.a] = Append(@, TakeSucceeds(Cur.a))]
    /\ owner' = [owner EXCEPT ![Cur.a] = IF TakeSucceeds(Cur.a) THEN "main" ELSE @]
    /\ held' = held \cup {Cur.a}
    /\ pc' = pc + 1
    /\ err' = IF TakeSucceeds(Cur.a) THEN err ELSE "AlreadyTaken"
    /\ UNCHANGED <<prog, halted, clocks, delayReady, ports, pinMode, cfgCount, uartOn,
                   level, remaining, t, iter, idx, txCur, gap, wrote>>

\* let x = Peripherals::take().unwrap_or_else(|| loop { asm::nop() });
TakeOrHalt ==
    /\ Running("take")
    /\ takeLog' = [takeLog EXCEPT ![Cur.a] = Append(@, TakeSucceeds(Cur.a))]
    /\ IF TakeSucceeds(Cur.a)
       THEN /\ owner' = [owner EXCEPT ![Cur.a] = "main"]
            /\ held' = held \cup {Cur.a}
            /\ pc' = pc + 1
            /\ UNCHANGED <<halted, err>>
       ELSE /\ halted' = TRUE
            /\ err' = "AlreadyTaken"
            /\ UNCHANGED <<owner, held, pc>>
    /\ UNCHANGED <<prog, clocks, delayReady, ports, pinMode, cfgCount, uartOn,
                   level, remaining, t, iter, idx, txCur, gap, wrote>>

\* The body of every error closure: loop { asm::nop(); }
Spin ==
    /\ halted
    /\ UNCHANGED vars

(***************************************************************************)
(* Clock, delay, port, pin and UART configuration.                         *)
(***************************************************************************)
\* rcc.cfgr[.sysclk(48.MHz())].freeze(..)
Freeze ==
    /\ Running("freeze")
    /\ clocks' = Cur.a
    /\ pc' = pc + 1
    /\ UNCHANGED <<prog, halted, err, owner, takeLog, held, delayReady, ports, pinMode,
                   cfgCount, uartOn, level, remaining, t, iter, idx, txCur, gap, wrote>>

\* core_periphs.SYST.delay(&clocks) / Delay::new(core_periphs.SYST, clocks)
DelayNew ==
    /\ Running("delay_new")
    /\ delayReady' = TRUE
    /\ pc' = pc + 1
    /\ UNCHANGED <<prog, halted, err, owner, takeLog, held, clocks, ports, pinMode,
                   cfgCount, uartOn, level, remaining, t, iter, idx, txCur, gap, wrote>>

\* device_periphs.GPIOx.split(..)
Split ==
    /\ Running("split")
    /\ ports' = ports \cup {Cur.a}
    /\ pc' = pc + 1
    /\ UNCHANGED <<prog, halted, err, owner, takeLog, held, clocks, delayReady, pinMode,
                   cfgCount, uartOn, level, remaining, t, iter, idx, txCur, gap, wrote>>

\* The mode a configuring statement puts its pin in.
ModeOf(op) ==
    CASE op = "into_push_pull_output" -> "push_pull_output"
      [] op = "into_af_push_pull" -> "af_push_pull"
      [] op = "leds_new" -> "push_pull_output"

\* gpiox.pxN.into_push_pull_output() / .into_af_push_pull(..)
ConfigPin ==
    /\ ~halted
    /\ Cur.op \in {"into_push_pull_output", "into_af_push_pull"}
    /\ pinMode' = [pinMode EXCEPT ![Cur.a] = ModeOf(Cur.op)]
    /\ cfgCount' = [cfgCount EXCEPT ![Cur.a] = @ + 1]
    /\ pc' = pc + 1
    /\ UNCHANGED <<prog, halted, err, owner, takeLog, held, clocks, delayReady, ports,
                   uartOn, level, remaining, t, iter, idx, txCur, gap, wrote>>

\* Leds::new(gpioe.pe8, .., gpioe.pe15, &mut gpioe.moder, &mut gpioe.otyper)
LedsNew ==
    /\ Running("leds_new")
    /\ pinMode' = [p \in Pins |-> IF p \in LedsPins THEN ModeOf(Cur.op) ELSE pinMode[p]]
    /\ cfgCount' = [p \in Pins |-> IF p \in LedsPins THEN cfgCount[p] + 1 ELSE cfgCount[p]]
    /\ pc' = pc + 1
    /\ UNCHANGED <<prog, halted, err, owner, takeLog, held, clocks, delayReady, ports,
                   uartOn, level, remaining, t, iter, idx, txCur, gap, wrote>>

\* Serial::new(device_periphs.UART4, (tx_pin, rx_pin), config, clocks, apb1)
SerialNew ==
    /\ Running("serial_new")
    /\ uartOn' = TRUE
    /\ pc' = pc + 1
    /\ UNCHANGED <<prog, halted, err, owner, takeLog, held, clocks, delayReady, ports,
                   pinMode, cfgCount, level, remaining, t, iter, idx, txCur, gap, wrote>>

\* asm::nop() at the top of the skeleton's main
Nop ==
    /\ Running("nop")
    /\ pc' = pc + 1
    /\ UNCHANGED <<prog, halted, err, owner, takeLog, held, clocks, delayReady, ports,
                   pinMode, cfgCount, uartOn, level, remaining, t, iter, idx, txCur, gap,
                   wrote>>

(***************************************************************************)
(* Loop-body statements.                                                   *)
(***************************************************************************)
\* led.set_high()
SetHigh ==
    /\ Running("set_high")
    /\ level' = [level EXCEPT ![Cur.a] = TRUE]
    /\ pc' = pc + 1
    /\ UNCHANGED <<prog, halted, err, owner, takeLog, held, clocks, delayReady, ports,
                   pinMode, cfgCount, uartOn, remaining, t, iter, idx, txCur, gap, wrote>>

\* led.set_low()
SetLow ==
    /\ Running("set_low")
    /\ level' = [level EXCEPT ![Cur.a] = FALSE]
    /\ pc' = pc + 1
    /\ UNCHANGED <<prog, halted, err, owner, takeLog, held, clocks, delayReady, ports,
                   pinMode, cfgCount, uartOn, remaining, t, iter, idx, txCur, gap, wrote>>

\* leds.ldN.toggle().ok(): toggle() returned Ok
ToggleOk ==
    /\ Running("toggle")
    /\ level' = [level EXCEPT ![Cur.a] = ~@]
    /\ pc' = pc + 1
    /\ UNCHANGED <<prog, halted, err, owner, takeLog, held, clocks, delayReady, ports,
                   pinMode, cfgCount, uartOn, remaining, t, iter, idx, txCur, gap, wrote>>

\* leds.ldN.toggle().ok(): toggle() returned Err, which .ok() drops; whether the
\* failed toggle changed the output is not known
ToggleErr ==
    /\ Running("toggle")
    /\ \E changed \in BOOLEAN :
           level' = [level EXCEPT ![Cur.a] = IF changed THEN ~@ ELSE @]
    /\ err' = "ToggleError"
    /\ pc' = pc + 1
    /\ UNCHANGED <<prog, halted, owner, takeLog, held, clocks, delayReady, ports,
                   pinMode, cfgCount, uartOn, remaining, t, iter, idx, txCur, gap, wrote>>

\* delay.delay_ms(n): the call starts a busy wait of n ms
DelayCall ==
    /\ Running("delay_ms")
    /\ remaining = 0
    /\ remaining' = Cur.n
    /\ UNCHANGED <<prog, pc, halted, err, owner, takeLog, held, clocks, delayReady, ports,
                   pinMode, cfgCount, uartOn, level, t, iter, idx, txCur, gap, wrote>>

\* delay.delay_ms(n): the busy wait goes on for a while (at most TickMs at a
\* time); the call returns when no time is left
DelayTick ==
    /\ Running("delay_ms")
    /\ remaining > 0
    /\ LET d == IF remaining < TickMs THEN remaining ELSE TickMs
       IN /\ remaining' = remaining - d
          /\ t' = (t + d) % Period(prog)
          /\ gap' = IF wrote THEN gap + d ELSE gap
          /\ pc' = IF remaining = d THEN pc + 1 ELSE pc
    /\ UNCHANGED <<prog, halted, err, owner, takeLog, held, clocks, delayReady, ports,
                   pinMode, cfgCount, uartOn, level, iter, idx, txCur, wrote>>

\* uart4.write_str(..): the next byte of the payload goes out on UART4
WriteByte ==
    /\ Running("write_str")
    /\ idx < Len(Payload)
    /\ txCur' = IF idx = 0 THEN <<Payload[1]>> ELSE Append(txCur, Payload[idx + 1])
    /\ idx' = idx + 1
    /\ UNCHANGED <<prog, pc, halted, err, owner, takeLog, held, clocks, delayReady, ports,
                   pinMode, cfgCount, uartOn, level, remaining, t, iter, gap, wrote>>

\* A write_str whose error handler goes back to write again instead of spinning.
WriteErr_Retries ==
    /\ Running("write_str")
    /\ idx < Len(Payload)
    /\ txCur' = IF idx = 0 THEN <<>> ELSE txCur
    /\ err' = "TransmitError"
    /\ idx' = 0
    /\ UNCHANGED <<prog, pc, halted, owner, takeLog, held, clocks, delayReady, ports,
                   pinMode, cfgCount, uartOn, level, remaining, t, iter, gap, wrote>>

\* uart4.write_str(..) returns Err: .unwrap_or_else(|_| loop { asm::nop() })
WriteErr ==
    /\ Running("write_str")
    /\ idx < Len(Payload)
    /\ txCur' = IF idx = 0 THEN <<>> ELSE txCur
    /\ err' = "TransmitError"
    /\ halted' = TRUE
    /\ UNCHANGED <<prog, pc, owner, takeLog, held, clocks, delayReady, ports, pinMode,
                   cfgCount, uartOn, level, remaining, t, iter, idx, gap, wrote>>

\* uart4.write_str(..) returns Ok(()) after the last byte
WriteOk ==
    /\ Running("write_str")
    /\ idx = Len(Payload)
    /\ idx' = 0
    /\ wrote' = TRUE
    /\ gap' = 0
    /\ pc' = pc + 1
    /\ UNCHANGED <<prog, halted, err, owner, takeLog, held, clocks, delayReady, ports,
                   pinMode, cfgCount, uartOn, level, remaining, t, iter, txCur>>

\* the end of the body of loop { .. }: back to its first statement
Loop ==
    /\ Running("loop")
    /\ pc' = Cur.n
    /\ iter' = (iter + 1) % 2
    /\ UNCHANGED <<prog, halted, err, owner, takeLog, held, clocks, delayReady, ports,
                   pinMode, cfgCount, uartOn, level, remaining, t, idx, txCur, gap, wrote>>

Next ==
    \/ TakeOrHalt
    \/ Spin
    \/ Freeze
    \/ DelayNew
    \/ Split
    \/ ConfigPin
    \/ LedsNew
    \/ SerialNew
    \/ Nop
    \/ SetHigh
    \/ SetLow
    \/ ToggleOk
    \/ ToggleErr
    \/ DelayCall
    \/ DelayTick
    \/ WriteByte
    \/ WriteErr
    \/ WriteOk
    \/ Loop

Spec == Init /\ [][Next]_vars

\* The processor never stops executing instructions.
FairSpec == Spec /\ WF_vars(Next)

(***************************************************************************)
(* Vocabulary of the properties.                                           *)
(***************************************************************************)
\* main is executing its loop body (or waiting in one of its delays).
InLoop == ~halted /\ pc >= LoopStart(prog)

\* The physical pins a program makes handles of.
ProgPins(p) ==
    CASE p = "nucleo" -> NucleoPins
      [] p = "f3blinky" -> LedsPins
      [] p = "f3uart" -> UartPins
      [] p = "skeleton" -> {}

\* The mode each pin is asked to be in: LED pins push-pull outputs, PC10/PC11
\* alternate-function push-pull.
RequestedMode(p) == IF p \in UartPins THEN "af_push_pull" ELSE "push_pull_output"

AnyPinConfigured == \E p \in Pins : cfgCount[p] > 0 \/ pinMode[p] # "reset"

\* Something of GPIO or UART4 has been set up.
IoConfigured == ports # {} \/ AnyPinConfigured \/ uartOn

\* Everything the loop body of a program uses has been set up.
AllConfigured ==
    /\ prog # "skeleton" =>
           /\ held = Singletons
           /\ clocks # "none"
           /\ delayReady
           /\ ports # {}
    /\ \A p \in ProgPins(prog) : cfgCount[p] > 0
    /\ prog = "f3uart" => uartOn

\* Live PeripheralSets of a singleton: the one somebody else holds, the one main holds.
LiveSets(s) ==
    (IF owner[s] = "other" THEN 1 ELSE 0) + (IF s \in held THEN 1 ELSE 0)

\* A fatal error: a failed take() or a failed write_str.
Fatal == err \in {"AlreadyTaken", "TransmitError"}

IsPrefix(s, q) == Len(s) <= Len(q) /\ \A i \in 1..Len(s) : s[i] = q[i]

\* The handle main binds to a pin of the Nucleo board.
HandleOfPin(p) ==
    LET i == CHOOSE j \in 1..Len(NucleoMain) :
                 NucleoMain[j].op = "into_push_pull_output" /\ NucleoMain[j].a = p
    IN NucleoMain[i].b

\* A delay is in progress: time is passing.
Waiting == ~halted /\ Cur.op = "delay_ms" /\ remaining > 0

(***************************************************************************)
(* C1.  For each peripheral singleton, of all acquisition attempts of one  *)
(* program lifetime the first succeeds and every later one fails; at most  *)
(* one PeripheralSet of it is live in every reachable state, and main      *)
(* holds one only if main's own take() was the one that succeeded.         *)
(***************************************************************************)
C1_SingleAcquisition ==
    \A s \in Singletons :
        /\ \A i \in 1..Len(takeLog[s]) : takeLog[s][i] = (i = 1)
        /\ LiveSets(s) <= 1
        /\ s \in held => owner[s] = "main"

\* main took the device peripherals; its take() of the core peripherals was the
\* second attempt and failed.
C1_Witness ==
    /\ "device" \in held
    /\ takeLog["device"] = <<TRUE>>
    /\ takeLog["core"] = <<TRUE, FALSE>>

(***************************************************************************)
(* C2.  The fault halt is absorbing: the step on which a fatal error       *)
(* occurs enters the halt, and from then on every step is the spin, which  *)
(* changes nothing: no pin write, no UART byte, no delay, no retry.        *)
(***************************************************************************)
C2_HaltAbsorbing ==
    [][ /\ Fatal' => halted'
        /\ Fatal => UNCHANGED vars ]_vars

\* write_str failed after part of the payload went out, and main spins.
C2_Witness ==
    /\ halted
    /\ err = "TransmitError"
    /\ Len(txCur) = 5

(***************************************************************************)
(* C3.  Nucleo blinky: while time passes in the loop, each of PB0, PB7 and *)
(* PB14 is High when t mod 500 ms is in [0,100) and Low when it is in      *)
(* [100,500), t being the time since the first set_high.                   *)
(***************************************************************************)
C3_BlinkTiming ==
    (prog = "nucleo" /\ Waiting) =>
        \A p \in NucleoPins :
            level[HandleOfPin(p)] = ((t % 500) < 100)

\* In the second iteration, 250 ms after its set_high.
C3_Witness ==
    /\ prog = "nucleo"
    /\ Waiting
    /\ iter = 1
    /\ t = 250
    /\ \A p \in NucleoPins : ~level[HandleOfPin(p)]

(***************************************************************************)
(* C4.  F3 UART: what UART4 sends is whole copies of the 15-byte payload:  *)
(* the bytes sent since a write started are always a prefix of the         *)
(* payload, and when the next write starts they are the whole payload and  *)
(* 2,000 ms of delay have passed since the previous write returned.        *)
(***************************************************************************)
C4_UartFraming ==
    [][ prog = "f3uart" =>
          /\ IsPrefix(txCur', Payload)
          /\ (Cur.op = "delay_ms" /\ ~halted) => txCur = Payload
          /\ (/\ Running("write_str")
              /\ idx = 0
              /\ wrote
              /\ idx' = 1 \/ halted')
             => (txCur = Payload /\ gap = UART_WRITE_DELAY_MS) ]_vars

\* The second write is half way through its payload.
C4_Witness ==
    /\ prog = "f3uart"
    /\ wrote
    /\ Running("write_str")
    /\ idx = 7
    /\ txCur = SubSeq(Payload, 1, 7)

(***************************************************************************)
(* C6.  Every error is terminal: whenever an operation has returned an     *)
(* error outcome the program is in the halt; none is dropped with the loop *)
(* going on.                                                               *)
(***************************************************************************)
C6_EveryErrorTerminal == err # "none" => halted

(***************************************************************************)
(* C7.  Initialization order.  As claimed: both take() calls precede clock *)
(* configuration, which precedes all GPIO/UART configuration, which        *)
(* precedes the loop body; a failed take() halts with nothing configured.  *)
(***************************************************************************)
C7_AllTakesBeforeClocks ==
    /\ clocks # "none" => held = Singletons
    /\ IoConfigured => clocks # "none"
    /\ InLoop => AllConfigured
    /\ err = "AlreadyTaken" => (clocks = "none" /\ ~IoConfigured)

(***************************************************************************)
(* C7 as amended.  The device take() precedes clock configuration; the     *)
(* core take() precedes the creation of the delay and all GPIO/UART        *)
(* configuration; clock configuration precedes GPIO/UART configuration,    *)
(* which precedes the loop body.  A failed device take() halts with        *)
(* nothing configured; a failed core take() halts with no delay, pin or    *)
(* UART configured.                                                        *)
(***************************************************************************)
C7_InitOrder ==
    /\ clocks # "none" => "device" \in held
    /\ delayReady => ("core" \in held /\ clocks # "none")
    /\ IoConfigured => (held = Singletons /\ clocks # "none" /\ delayReady)
    /\ InLoop => AllConfigured
    /\ (err = "AlreadyTaken" /\ "device" \notin held) => clocks = "none"
    /\ err = "AlreadyTaken" => (halted /\ ~delayReady /\ ~IoConfigured)

\* The core take() failed after the clocks had been frozen at 48 MHz.
C7_Witness ==
    /\ halted
    /\ err = "AlreadyTaken"
    /\ "device" \in held
    /\ clocks = "48MHz"

(***************************************************************************)
(* C8.  Pins are exclusive and mode-locked: no pin is configured twice, a  *)
(* configured pin has the mode asked for in every later state, an          *)
(* unconfigured pin is untouched, and in the loop every pin of the program *)
(* is configured.                                                          *)
(***************************************************************************)
C8_PinsExclusive ==
    /\ \A p \in Pins :
           /\ cfgCount[p] <= 1
           /\ cfgCount[p] = 1 => pinMode[p] = RequestedMode(p)
           /\ cfgCount[p] = 0 => pinMode[p] = "reset"
           /\ cfgCount[p] = 1 => p \in ProgPins(prog)
    /\ InLoop => \A p \in ProgPins(prog) : cfgCount[p] = 1

\* The UART program in its second loop iteration, PC10 and PC11 still AF push-pull.
C8_Witness ==
    /\ prog = "f3uart"
    /\ InLoop
    /\ iter = 1
    /\ pinMode["PC10"] = "af_push_pull"
    /\ pinMode["PC11"] = "af_push_pull"

(***************************************************************************)
(* C10.  F3 blinky: at every delay point all eight LEDs hold the same      *)
(* state, it alternates from one iteration to the next, and after an even  *)
(* number of completed iterations every LED is back in its initial state.  *)
(***************************************************************************)
C10_LedsInStep ==
    /\ (prog = "f3blinky" /\ Running("delay_ms")) =>
           \A h \in BoardLeds : level[h] = (iter = 0)
    /\ (prog = "f3blinky" /\ ~halted /\ pc = LoopStart(prog) /\ iter = 0) =>
           \A h \in BoardLeds : ~level[h]

(***************************************************************************)
(* C9.  The polling loop never returns and never stops cycling while no    *)
(* write fails: main never runs past its last statement; once the loop is  *)
(* entered its statements run in program order and iteration after         *)
(* iteration completes unless a write fails; the Nucleo loop runs          *)
(* set_high LD1, LD2, LD3, delay 100 ms, set_low LD1, LD2, LD3, delay      *)
(* 400 ms in exactly this order.                                           *)
(***************************************************************************)
NucleoSchedule ==
    << <<"set_high", "led_ld1", 0>>, <<"set_high", "led_ld2", 0>>,
       <<"set_high", "led_ld3", 0>>, <<"delay_ms", "", 100>>,
       <<"set_low", "led_ld1", 0>>, <<"set_low", "led_ld2", 0>>,
       <<"set_low", "led_ld3", 0>>, <<"delay_ms", "", 400>> >>

\* What the statement at index i does; the end of the loop body stands for the
\* first statement of the body.
Sig(i) ==
    LET m == Main(prog)
        j == IF m[i].op = "loop" THEN m[i].n ELSE i
    IN <<m[j].op, m[j].a, m[j].n>>

C9_LoopForever ==
    /\ [](pc \in 1..Len(Main(prog)))
    /\ [][ (prog = "nucleo" /\ InLoop /\ Cur.op # "loop" /\ pc' # pc) =>
             \E k \in 1..Len(NucleoSchedule) :
                 /\ Sig(pc) = NucleoSchedule[k]
                 /\ Sig(pc') = NucleoSchedule[(k % Len(NucleoSchedule)) + 1] ]_vars
    /\ [][ (InLoop /\ pc' # pc) =>
             IF Cur.op = "loop" THEN pc' = LoopStart(prog) ELSE pc' = pc + 1 ]_vars
    /\ \A i \in 0..1 :
           (InLoop /\ iter = i) ~> (iter = 1 - i \/ err = "TransmitError")

\* The Nucleo loop is one step from completing its second iteration.
C9_Witness ==
    /\ prog = "nucleo"
    /\ iter = 1
    /\ Waiting
    /\ Cur.n = LED_OFF_DELAY_MS
    /\ remaining <= TickMs

====
